---- MODULE Spec2Model ----
(***************************************************************************)
(* BT-Phonebook-Lookup: the ingestion run (indexer.py build_index and the  *)
(* /admin/reindex trigger of app.py), the records table with its unique    *)
(* index, the bulk downloader (scraper.py), the text segmenter (parser.py  *)
(* parse_records) and the /search handler (app.py).                        *)
(*                                                                         *)
(* A Python string is a sequence of symbols.  In the segmenter and the     *)
(* search handler a symbol is one character; in URLs, hrefs and the lines  *)
(* of the URL list a symbol is a character or an indivisible chunk of a    *)
(* URL (scheme and host, directory, stem, extension, query).               *)
(***************************************************************************)
EXTENDS Integers, Sequences, FiniteSets, TLC

VARIABLES
    \* ---- parser.py
    text,           \* the text handed to parse_records
    blobs,          \* its result
    ppc,            \* "start" before the call, "done" after
    \* ---- app.py /search
    arg,            \* request.args.get("q", "") of the last request
    served,         \* number of /search requests served
    dbQueries,      \* number of cur.execute calls made by /search
    searchResp,     \* the response of the last request (status 0 before the first)
    \* ---- scraper.py
    page,           \* the href of every <a href> of the page at base_url, in order
    spc,            \* position of scraper main
    pdf_links,      \* main's pdf_links
    k,              \* index of the link the download loop is at
    downloads,      \* the pdf_url of every requests.get that download_pdf issued
    folder,         \* file names written to pdfs/
    \* ---- indexer.py, app.py /admin/reindex
    ADMIN_TOKEN,    \* os.environ.get("ADMIN_TOKEN")
    listFile,       \* the lines of pdf_urls.txt
    docs,           \* what each document URL serves: the rows its PDF parses to
    records,        \* the committed rows of table records, in insertion order
    pc,             \* position of reindex / build_index
    runs,           \* number of authorized reindex requests so far
    pdf_urls,       \* build_index's pdf_urls
    i,              \* enumerate index of the loop of build_index
    rows,           \* rows parsed from the current document
    total_inserted, \* build_index's total_inserted
    txAborted,      \* the connection's transaction is in the failed state
    events,         \* this run's outbound events: <<"fetch", url>> and <<"sleep">>
    errors,         \* this run's "!! Error indexing" log lines
    lastUpsert,     \* the last upsert_records call: table size before/after, return value
    tally,          \* this run's totals: documents attempted, rows parsed, rows the table grew by
    ret,            \* what the last build_index call returned
    response        \* the response of the last /admin/reindex request (status 0 before the first)

parseVars == <<text, blobs, ppc>>
searchVars == <<arg, served, dbQueries, searchResp>>
scrapeVars == <<page, spc, pdf_links, k, downloads, folder>>
indexVars == <<ADMIN_TOKEN, listFile, docs, records, pc, runs, pdf_urls, i, rows,
               total_inserted, txAborted, events, errors, lastUpsert, tally, ret, response>>
vars == <<parseVars, searchVars, scrapeVars, indexVars>>

\* Python's None / SQL NULL where a string may stand: a one-symbol string that no
\* document, list or query contains
NULL == <<"None">>

\* ------------------------------------------------------------------ bounds
MaxTextLen == 6
MaxQueryLen == 3
MaxRequests == 2
MaxAnchors == 3
MaxFileLines == 2
MaxRuns == 2

\* ------------------------------------------------------------------ strings
Whitespace == {" ", "\t", "\n"}
Digits == {"1"}

SeqsUpTo(S, n) == UNION {[1..m -> S] : m \in 0..n}

RECURSIVE lstrip(_)
lstrip(s) == IF s # <<>> /\ Head(s) \in Whitespace THEN lstrip(Tail(s)) ELSE s

RECURSIVE rstrip(_)
rstrip(s) ==
    IF s # <<>> /\ s[Len(s)] \in Whitespace THEN rstrip(SubSeq(s, 1, Len(s) - 1)) ELSE s

\* str.strip()
strip(s) == rstrip(lstrip(s))

\* str.splitlines(): a line break ends a line (an empty one too); what follows the
\* last line break is a line only if it is not empty
RECURSIVE splitlines_from(_, _, _)
splitlines_from(s, cur, acc) ==
    IF s = <<>> THEN (IF cur = <<>> THEN acc ELSE Append(acc, cur))
    ELSE IF Head(s) = "\n" THEN splitlines_from(Tail(s), <<>>, Append(acc, cur))
    ELSE splitlines_from(Tail(s), Append(cur, Head(s)), acc)

splitlines(s) == splitlines_from(s, <<>>, <<>>)

\* " ".join(parts)
RECURSIVE join(_)
join(parts) ==
    IF parts = <<>> THEN <<>>
    ELSE IF Len(parts) = 1 THEN parts[1]
    ELSE parts[1] \o <<" ">> \o join(Tail(parts))

\* ------------------------------------------------------------------ parser.py
\* re.compile(r'\(\d+\)\s*\d+').search(line)
phone_pattern_search(line) ==
    \E a \in 1..Len(line), b \in 1..Len(line), c \in 1..Len(line) :
        /\ a + 1 < b /\ b < c
        /\ line[a] = "("
        /\ \A d \in (a + 1)..(b - 1) : line[d] \in Digits
        /\ line[b] = ")"
        /\ \A w \in (b + 1)..(c - 1) : line[w] \in Whitespace
        /\ line[c] \in Digits

\* the loop of parse_records over the lines from index n on
RECURSIVE parse_loop(_, _, _, _)
parse_loop(lines, n, recs, current_record) ==
    IF n > Len(lines) THEN [records |-> recs, current_record |-> current_record]
    ELSE LET line == strip(lines[n]) IN
         IF line = <<>> THEN parse_loop(lines, n + 1, recs, current_record)
         ELSE LET cur == IF current_record # <<>>
                         THEN current_record \o <<" ">> \o line
                         ELSE line
              IN IF phone_pattern_search(line)
                 THEN parse_loop(lines, n + 1, Append(recs, cur), <<>>)
                 ELSE parse_loop(lines, n + 1, recs, cur)

\* parse_records without the flush of the leftover text after the loop
parse_records_noflush(t) == parse_loop(splitlines(t), 1, <<>>, <<>>).records

parse_records(t) ==
    LET end == parse_loop(splitlines(t), 1, <<>>, <<>>)
    IN IF end.current_record # <<>>
       THEN Append(end.records, end.current_record)
       ELSE end.records

TextAlphabet == {"a", " ", "\n", "(", ")", "1"}

ParseInit ==
    /\ text \in SeqsUpTo(TextAlphabet, MaxTextLen)
    /\ blobs = <<>>
    /\ ppc = "start"

Parse ==
    /\ ppc = "start"
    /\ blobs' = parse_records(text)
    /\ ppc' = "done"
    /\ UNCHANGED text

\* ------------------------------------------------------------------ app.py /search
QueryAlphabet == {" ", "\t", "a"}
LIMIT == 50

Min(a, b) == IF a < b THEN a ELSE b

\* the query taken as sent, without .strip()
search_q_nostrip(a) == a

\* q = request.args.get("q", "").strip()
search_q(a) == strip(a)

\* what the SELECT of /search can return from table tbl: the match and the rank are
\* the store's (plainto_tsquery, ts_rank); at most LIMIT rows come back
SelectResults(tbl) == {SubSeq(tbl, 1, n) : n \in 0..Min(Len(tbl), LIMIT)}

SearchInit ==
    /\ arg = <<>>
    /\ served = 0
    /\ dbQueries = 0
    /\ searchResp = [status |-> 0, q |-> <<>>, rows |-> <<>>, error |-> "none"]

\* GET /search?q=a
search(a) ==
    /\ served < MaxRequests
    /\ arg' = a
    /\ served' = served + 1
    /\ LET q == search_q(a) IN
       IF q # <<>>
       THEN \/ \* get_conn() raises: no statement is executed
               /\ dbQueries' = dbQueries
               /\ searchResp' = [status |-> 500, q |-> q, rows |-> <<>>, error |-> "connect"]
            \/ \* cur.execute raises
               /\ dbQueries' = dbQueries + 1
               /\ searchResp' = [status |-> 500, q |-> q, rows |-> <<>>, error |-> "execute"]
            \/ \E res \in SelectResults(records) :
               /\ dbQueries' = dbQueries + 1
               /\ searchResp' = [status |-> 200, q |-> q, rows |-> res, error |-> "none"]
       ELSE /\ dbQueries' = dbQueries
            /\ searchResp' = [status |-> 200, q |-> q, rows |-> <<>>, error |-> "none"]

Search == \E a \in SeqsUpTo(QueryAlphabet, MaxQueryLen) : search(a)

\* ------------------------------------------------------------------ URLs
HostSymbols == {"https://www.bt.com", "https://evil.example"}
DirSymbols == {"/", "/help/the-phone-book/"}

\* the symbols of URLs and list lines in the order Python compares strings
SymbolOrder == <<" ", "#", ".PDF", ".html", ".pdf", "/", "/help/the-phone-book/", "?v=1",
                 "B", "a", "a-z-directory-finder", "https://evil.example",
                 "https://www.bt.com">>

Rank(x) == CHOOSE n \in 1..Len(SymbolOrder) : SymbolOrder[n] = x

\* s < t on strings
RECURSIVE StrLess(_, _)
StrLess(s, t) ==
    IF t = <<>> THEN FALSE
    ELSE IF s = <<>> THEN TRUE
    ELSE IF Head(s) = Head(t) THEN StrLess(Tail(s), Tail(t))
    ELSE Rank(Head(s)) < Rank(Head(t))

\* sorted(S) of a set of strings
RECURSIVE sorted(_)
sorted(S) ==
    IF S = {} THEN <<>>
    ELSE LET m == CHOOSE x \in S : \A y \in S \ {x} : StrLess(x, y)
         IN <<m>> \o sorted(S \ {m})

Range(s) == {s[n] : n \in 1..Len(s)}

\* str.lower(), symbol by symbol
lower_symbol(x) == IF x = ".PDF" THEN ".pdf" ELSE IF x = "B" THEN "b" ELSE x
lower(s) == [n \in 1..Len(s) |-> lower_symbol(s[n])]

\* s.lower().endswith('.pdf')
lower_endswith_pdf(s) == s # <<>> /\ lower(s)[Len(s)] = ".pdf"

\* ------------------------------------------------------------------ scraper.py
base_url == <<"https://www.bt.com", "/help/the-phone-book/", "a-z-directory-finder">>

\* urllib.parse.urljoin(base, href): an absolute href stands; a root-relative one
\* takes the base's scheme and host; a relative one replaces the base's last segment
urljoin(base, href) ==
    IF href = <<>> THEN base
    ELSE IF Head(href) \in HostSymbols THEN href
    ELSE IF Head(href) \in DirSymbols THEN <<base[1]>> \o href
    ELSE <<base[1], base[2]>> \o href

\* the loop of extract_pdf_links over the anchors
RECURSIVE extract_loop(_, _, _)
extract_loop(url, hrefs, links) ==
    IF hrefs = <<>> THEN links
    ELSE LET href == Head(hrefs) IN
         IF lower_endswith_pdf(href)
         THEN extract_loop(url, Tail(hrefs), Append(links, urljoin(url, href)))
         ELSE extract_loop(url, Tail(hrefs), links)

\* os.path.basename(pdf_url.split('?')[0])
basename(pdf_url) ==
    LET cut == IF \E n \in 1..Len(pdf_url) : pdf_url[n] = "?v=1"
               THEN SubSeq(pdf_url, 1, (CHOOSE n \in 1..Len(pdf_url) : pdf_url[n] = "?v=1") - 1)
               ELSE pdf_url
        dirs == {n \in 1..Len(cut) : cut[n] \in DirSymbols}
    IN IF dirs = {} THEN cut
       ELSE SubSeq(cut, (CHOOSE n \in dirs : \A m \in dirs : m <= n) + 1, Len(cut))

Hrefs == {
    <<"a", ".pdf">>,
    <<"/help/the-phone-book/", "a", ".pdf">>,
    <<"https://evil.example", "/", "a", ".PDF">>,
    <<"https://www.bt.com", "/", "B", ".html">>,
    <<"a", ".pdf", "?v=1">>}

ScrapeInit ==
    /\ page \in SeqsUpTo(Hrefs, MaxAnchors)
    /\ spc = "start"
    /\ pdf_links = <<>>
    /\ k = 0
    /\ downloads = <<>>
    /\ folder = {}

\* main: pdf_links = extract_pdf_links(base_url)
extract_pdf_links ==
    /\ spc = "start"
    /\ \/ pdf_links' = extract_loop(base_url, page, <<>>)
       \/ pdf_links' = <<>>      \* requests.RequestException: return []
    /\ k' = 1
    /\ spc' = "loop"
    /\ UNCHANGED <<page, downloads, folder>>

\* main: one turn of "for pdf_url in pdf_links: download_pdf(pdf_url)"
download_pdf ==
    /\ spc = "loop"
    /\ k <= Len(pdf_links)
    /\ downloads' = Append(downloads, pdf_links[k])
    /\ \/ /\ folder' = folder \cup {basename(pdf_links[k])}
          /\ k' = k + 1
          /\ spc' = spc
       \/ \* requests.RequestException: printed, the loop goes on
          /\ folder' = folder
          /\ k' = k + 1
          /\ spc' = spc
       \/ \* OSError from open/write: not caught, main ends with a traceback
          /\ folder' = folder
          /\ k' = k
          /\ spc' = "crashed"
    /\ UNCHANGED <<page, pdf_links>>

scraper_exit ==
    /\ spc = "loop"
    /\ k > Len(pdf_links)
    /\ spc' = "done"
    /\ UNCHANGED <<page, pdf_links, k, downloads, folder>>

\* ------------------------------------------------------------------ indexer.py
\* Python truthiness of an optional string, and "v or None"
Falsy(v) == v = NULL \/ v = <<>>
OrNone(v) == IF Falsy(v) THEN NULL ELSE v

\* dict.get(key)
get(r, key) == IF key \in DOMAIN r THEN r[key] ELSE NULL

\* SQL coalesce(v, '')
coalesce(v) == IF v = NULL THEN <<>> ELSE v

\* the expression of uniq_record_idx's second column (md5 taken as injective)
md5_arg(row) ==
    coalesce(row.name) \o <<"|">> \o coalesce(row.address) \o <<"|">> \o coalesce(row.source_url)

\* uniq_record_idx: two rows conflict when both index columns are equal; a NULL
\* phone is equal to nothing, itself included (NULLS DISTINCT, the default)
uniq_record_conflict(v, row) ==
    /\ v.phone # NULL
    /\ row.phone # NULL
    /\ v.phone = row.phone
    /\ md5_arg(v) = md5_arg(row)

\* INSERT ... VALUES values ON CONFLICT ON CONSTRAINT uniq_record DO NOTHING
RECURSIVE insert_on_conflict_do_nothing(_, _)
insert_on_conflict_do_nothing(tbl, values) ==
    IF values = <<>> THEN tbl
    ELSE IF \E n \in 1..Len(tbl) : uniq_record_conflict(Head(values), tbl[n])
         THEN insert_on_conflict_do_nothing(tbl, Tail(values))
         ELSE insert_on_conflict_do_nothing(Append(tbl, Head(values)), Tail(values))

\* the values list upsert_records builds from rows
upsert_values(rs, source_url) ==
    [n \in 1..Len(rs) |->
        [name |-> OrNone(get(rs[n], "name")),
         address |-> OrNone(get(rs[n], "address")),
         phone |-> OrNone(get(rs[n], "phone")),
         source_url |-> source_url,
         page |-> OrNone(get(rs[n], "page")),
         raw_text |-> coalesce(OrNone(get(rs[n], "raw_text")))]]

\* what upsert_records returns after a successful INSERT of values
upsert_return(values) == Len(values)

\* the loop of load_pdf_urls_from_file over text.splitlines()
RECURSIVE load_loop(_, _)
load_loop(lines, urls) ==
    IF lines = <<>> THEN urls
    ELSE LET line == strip(Head(lines)) IN
         IF line = <<>> \/ Head(line) = "#" THEN load_loop(Tail(lines), urls)
         ELSE IF lower_endswith_pdf(line) THEN load_loop(Tail(lines), Append(urls, line))
         ELSE load_loop(Tail(lines), urls)

\* return sorted(set(urls))
load_pdf_urls(lines) == sorted(Range(load_loop(lines, <<>>)))

\* "except Exception" of build_index's loop: every exception a step raises
ExceptionClasses == {"RequestException", "ParseError", "DatabaseError"}
\* a narrower clause, "except requests.RequestException" (as download_pdf has)
except_RequestException(e) == e = "RequestException"
except_Exception(e) == e \in ExceptionClasses

\* ---- the world of the index run
url_a == <<"https://www.bt.com", "/", "a", ".pdf">>
url_B == <<"https://www.bt.com", "/", "B", ".PDF">>
DocURLs == {url_a, url_B}

ListLines == {
    url_a,
    <<" ">> \o url_a \o <<" ">>,
    url_B,
    <<"#">> \o url_a,
    <<" ">>,
    <<"https://www.bt.com", "/", "B", ".html">>}

row1 == [name |-> <<"A">>, address |-> <<"B", "|", "C">>, phone |-> <<"(1)1">>,
         raw_text |-> <<"A", ",", "B", "|", "C", "(1)1">>]
row2 == [name |-> <<"A", "|", "B">>, address |-> <<"C">>, phone |-> <<"(1)1">>,
         raw_text |-> <<"A", "|", "B", ",", "C", "(1)1">>]
row3 == [name |-> <<"A">>, address |-> <<>>, phone |-> NULL, raw_text |-> <<"A">>]
Batches == {<<>>, <<row1, row2, row1>>, <<row3>>}

NoUpsert == [called |-> FALSE, before |-> 0, after |-> 0, returned |-> 0]
NoTally == [attempted |-> 0, parsed |-> 0, grown |-> 0]
None_ret == [type |-> "NoneType"]
NoResponse == [status |-> 0, body |-> [status |-> "none"]]

IndexInit ==
    /\ ADMIN_TOKEN \in {NULL, <<"t">>}
    /\ listFile \in SeqsUpTo(ListLines, MaxFileLines)
    /\ docs \in [DocURLs -> Batches]
    /\ records = <<>>
    /\ pc = "idle"
    /\ runs = 0
    /\ pdf_urls = <<>>
    /\ i = 0
    /\ rows = <<>>
    /\ total_inserted = 0
    /\ txAborted = FALSE
    /\ events = <<>>
    /\ errors = <<>>
    /\ lastUpsert = NoUpsert
    /\ tally = NoTally
    /\ ret = None_ret
    /\ response = NoResponse

\* POST /admin/reindex with header X-Admin-Token: hdr (NULL when absent)
reindex(hdr) ==
    /\ pc = "idle"
    /\ IF Falsy(ADMIN_TOKEN) \/ hdr # ADMIN_TOKEN
       THEN /\ response' = [status |-> 401, body |-> [error |-> "unauthorized"]]
            /\ UNCHANGED <<pc, runs, pdf_urls, i, rows, total_inserted, txAborted, events,
                           errors, lastUpsert, tally, ret>>
       ELSE /\ runs < MaxRuns
            /\ runs' = runs + 1
            /\ pc' = "ensure_schema"
            /\ pdf_urls' = <<>>
            /\ i' = 0
            /\ rows' = <<>>
            /\ total_inserted' = 0
            /\ txAborted' = FALSE
            /\ events' = <<>>
            /\ errors' = <<>>
            /\ lastUpsert' = NoUpsert
            /\ tally' = NoTally
            /\ ret' = None_ret
            /\ response' = NoResponse
    /\ UNCHANGED <<ADMIN_TOKEN, listFile, docs, records>>

Reindex == \E hdr \in {NULL, <<"t">>, <<"x">>} : reindex(hdr)

\* an exception that leaves build_index: reindex answers 500
Propagate(e) ==
    /\ pc' = "idle"
    /\ response' = [status |-> 500, body |-> [error |-> e]]

\* build_index: ensure_schema(); it raises when the store is down or rejects SCHEMA_SQL
ensure_schema ==
    /\ pc = "ensure_schema"
    /\ \/ /\ pc' = "load"
          /\ UNCHANGED response
       \/ Propagate("DatabaseError")
    /\ UNCHANGED <<ADMIN_TOKEN, listFile, docs, records, runs, pdf_urls, i, rows,
                   total_inserted, txAborted, events, errors, lastUpsert, tally, ret>>

\* build_index: pdf_urls = load_pdf_urls_from_file("pdf_urls.txt")
load_pdf_urls_from_file ==
    /\ pc = "load"
    /\ \/ /\ pdf_urls' = load_pdf_urls(listFile)
          /\ pc' = "connect"
          /\ UNCHANGED response
       \/ /\ Propagate("FileNotFoundError")
          /\ UNCHANGED pdf_urls
    /\ UNCHANGED <<ADMIN_TOKEN, listFile, docs, records, runs, i, rows, total_inserted,
                   txAborted, events, errors, lastUpsert, tally, ret>>

\* build_index: with get_conn() as conn
get_conn ==
    /\ pc = "connect"
    /\ \/ /\ pc' = "fetch"
          /\ i' = 1
          /\ UNCHANGED response
       \/ /\ Propagate("OperationalError")
          /\ UNCHANGED i
    /\ UNCHANGED <<ADMIN_TOKEN, listFile, docs, records, runs, pdf_urls, rows,
                   total_inserted, txAborted, events, errors, lastUpsert, tally, ret>>

\* a step of the loop body raises e for document i: the except clause, or out
DocRaises(e) ==
    IF except_Exception(e)
    THEN /\ errors' = Append(errors, [url |-> pdf_urls[i], error |-> e])
         /\ i' = i + 1
         /\ pc' = "fetch"
         /\ UNCHANGED response
    ELSE /\ Propagate(e)
         /\ UNCHANGED <<errors, i>>

\* loop body: pdf_bytes = fetch_pdf(url)
fetch_pdf ==
    /\ pc = "fetch"
    /\ i <= Len(pdf_urls)
    /\ events' = Append(events, [kind |-> "fetch", url |-> pdf_urls[i]])
    /\ tally' = [tally EXCEPT !.attempted = @ + 1]
    /\ \/ /\ pc' = "parse"
          /\ UNCHANGED <<i, errors, response>>
       \/ DocRaises("RequestException")
    /\ UNCHANGED <<ADMIN_TOKEN, listFile, docs, records, runs, pdf_urls, rows,
                   total_inserted, txAborted, lastUpsert, ret>>

\* loop body: rows = records_from_pdf_bytes(pdf_bytes)
records_from_pdf_bytes ==
    /\ pc = "parse"
    /\ \/ /\ rows' = docs[pdf_urls[i]]
          /\ tally' = [tally EXCEPT !.parsed = @ + Len(docs[pdf_urls[i]])]
          /\ pc' = "upsert"
          /\ UNCHANGED <<i, errors, response>>
       \/ /\ DocRaises("ParseError")
          /\ UNCHANGED <<rows, tally>>
    /\ UNCHANGED <<ADMIN_TOKEN, listFile, docs, records, runs, pdf_urls,
                   total_inserted, txAborted, events, lastUpsert, ret>>

\* loop body: added = upsert_records(conn, rows, url); total_inserted += added
upsert_records ==
    /\ pc = "upsert"
    /\ LET values == upsert_values(rows, pdf_urls[i])
           after == insert_on_conflict_do_nothing(records, values)
       IN \/ \* if not rows: return 0
             /\ rows = <<>>
             /\ lastUpsert' = [called |-> TRUE, before |-> Len(records),
                               after |-> Len(records), returned |-> 0]
             /\ pc' = "sleep"
             /\ UNCHANGED <<records, total_inserted, txAborted, tally, i, errors, response>>
          \/ \* the INSERT runs and is committed
             /\ rows # <<>>
             /\ ~txAborted
             /\ records' = after
             /\ lastUpsert' = [called |-> TRUE, before |-> Len(records),
                               after |-> Len(after), returned |-> upsert_return(values)]
             /\ total_inserted' = total_inserted + upsert_return(values)
             /\ tally' = [tally EXCEPT !.grown = @ + Len(after) - Len(records)]
             /\ pc' = "sleep"
             /\ UNCHANGED <<txAborted, i, errors, response>>
          \/ \* the INSERT fails: nothing is committed and the transaction stays failed
             \* (every later statement on conn fails too)
             /\ rows # <<>>
             /\ txAborted' = TRUE
             /\ DocRaises("DatabaseError")
             /\ UNCHANGED <<records, total_inserted, lastUpsert, tally>>
    /\ UNCHANGED <<ADMIN_TOKEN, listFile, docs, runs, pdf_urls, rows, events, ret>>

\* loop body: time.sleep(0.25), the last statement of the try block
sleep ==
    /\ pc = "sleep"
    /\ events' = Append(events, [kind |-> "sleep", url |-> NULL])
    /\ i' = i + 1
    /\ pc' = "fetch"
    /\ UNCHANGED <<ADMIN_TOKEN, listFile, docs, records, runs, pdf_urls, rows,
                   total_inserted, txAborted, errors, lastUpsert, tally, ret, response>>

\* the loop is over: build_index falls off its end, reindex answers {"status": "ok"}
build_index_return ==
    /\ pc = "fetch"
    /\ i > Len(pdf_urls)
    /\ ret' = None_ret
    /\ response' = [status |-> 200, body |-> [status |-> "ok"]]
    /\ pc' = "idle"
    /\ UNCHANGED <<ADMIN_TOKEN, listFile, docs, records, runs, pdf_urls, i, rows,
                   total_inserted, txAborted, events, errors, lastUpsert, tally>>

\* ------------------------------------------------------------------ specifications
ParseIdle == text = <<>> /\ blobs = <<>> /\ ppc = "start"

SearchIdle == SearchInit

ScrapeIdle ==
    /\ page = <<>> /\ spc = "start" /\ pdf_links = <<>> /\ k = 0
    /\ downloads = <<>> /\ folder = {}

IndexIdle ==
    /\ ADMIN_TOKEN = NULL /\ listFile = <<>> /\ docs = [u \in DocURLs |-> <<>>]
    /\ pc = "idle" /\ runs = 0 /\ pdf_urls = <<>> /\ i = 0 /\ rows = <<>>
    /\ total_inserted = 0 /\ txAborted = FALSE /\ events = <<>> /\ errors = <<>>
    /\ lastUpsert = NoUpsert /\ tally = NoTally /\ ret = None_ret
    /\ response = NoResponse

\* ---- the ingestion service: reindex requests against one store
InitIndex == IndexInit /\ ParseIdle /\ SearchIdle /\ ScrapeIdle

NextIndex ==
    \/ Reindex /\ UNCHANGED <<parseVars, searchVars, scrapeVars>>
    \/ ensure_schema /\ UNCHANGED <<parseVars, searchVars, scrapeVars>>
    \/ load_pdf_urls_from_file /\ UNCHANGED <<parseVars, searchVars, scrapeVars>>
    \/ get_conn /\ UNCHANGED <<parseVars, searchVars, scrapeVars>>
    \/ fetch_pdf /\ UNCHANGED <<parseVars, searchVars, scrapeVars>>
    \/ records_from_pdf_bytes /\ UNCHANGED <<parseVars, searchVars, scrapeVars>>
    \/ upsert_records /\ UNCHANGED <<parseVars, searchVars, scrapeVars>>
    \/ sleep /\ UNCHANGED <<parseVars, searchVars, scrapeVars>>
    \/ build_index_return /\ UNCHANGED <<parseVars, searchVars, scrapeVars>>

SpecIndex == InitIndex /\ [][NextIndex]_vars

\* ---- the bulk downloader: one run of scraper.py main over any page
InitScrape == ScrapeInit /\ ParseIdle /\ SearchIdle /\ IndexIdle /\ records = <<>>

NextScrape ==
    \/ extract_pdf_links /\ UNCHANGED <<parseVars, searchVars, indexVars>>
    \/ download_pdf /\ UNCHANGED <<parseVars, searchVars, indexVars>>
    \/ scraper_exit /\ UNCHANGED <<parseVars, searchVars, indexVars>>

SpecScrape == InitScrape /\ [][NextScrape]_vars

\* ---- the segmenter: parse_records applied to any text
InitParse == ParseInit /\ SearchIdle /\ ScrapeIdle /\ IndexIdle /\ records = <<>>

NextParse == Parse /\ UNCHANGED <<searchVars, scrapeVars, indexVars>>

SpecParse == InitParse /\ [][NextParse]_vars

\* ---- the search handler: requests against a store that ingestion has filled
StoredTables == {
    <<>>,
    insert_on_conflict_do_nothing(<<>>, upsert_values(<<row1>>, url_a)),
    insert_on_conflict_do_nothing(<<>>, upsert_values(<<row1, row3>>, url_a))}

InitSearch ==
    /\ SearchInit /\ ParseIdle /\ ScrapeIdle /\ IndexIdle
    /\ records \in StoredTables

NextSearch == Search /\ UNCHANGED <<parseVars, scrapeVars, indexVars>>

SpecSearch == InitSearch /\ [][NextSearch]_vars

\* ------------------------------------------------------------------ properties
\* the URLs this run asked fetch_pdf for, in order
FetchLog ==
    LET IsFetch(e) == e.kind = "fetch"
        f == SelectSeq(events, IsFetch)
    IN [n \in 1..Len(f) |-> f[n].url]

NoRepeats(s) == \A m \in 1..Len(s), n \in 1..Len(s) : m # n => s[m] # s[n]

\* the (name, address, phone, sourceURL) tuple of a stored row
RecordTuple(row) == <<row.name, row.address, row.phone, row.source_url>>

\* C1: upsert_records returns the number of rows that call newly inserted: the
\* returned count equals the growth of the records table (so a second run over the
\* same documents counts 0).
C1_ReturnedCountIsGrowth ==
    lastUpsert.called => lastUpsert.returned = lastUpsert.after - lastUpsert.before

\* C2: re-inserting a stored (name, address, phone, sourceURL) tuple, a NULL phone
\* included, is a no-op: the table never holds two rows with the same tuple.
C2_OneRowPerTuple ==
    \A m \in 1..Len(records), n \in 1..Len(records) :
        m # n => RecordTuple(records[m]) # RecordTuple(records[n])

\* C3: in build_index every URL of the loaded list is fetched exactly once and in
\* list order, whatever earlier documents raised at fetch, parse or upsert, and no
\* per-document exception leaves build_index (a 500 comes from set-up only).
C3_EveryUrlFetchedInOrder ==
    /\ pc \in {"parse", "upsert", "sleep"} => FetchLog = SubSeq(pdf_urls, 1, i)
    /\ pc = "fetch" => FetchLog = SubSeq(pdf_urls, 1, i - 1)
    /\ response.status = 200 => FetchLog = pdf_urls
    /\ response.status = 500 => events = <<>>

\* a run over two documents has ended normally although its first document raised
C3_Witness ==
    /\ pc = "idle"
    /\ response.status = 200
    /\ Len(pdf_urls) = 2
    /\ errors # <<>>
    /\ errors[1].url = pdf_urls[1]
    /\ FetchLog = pdf_urls

\* C4: between the fetch of document i and the fetch of document i+1 a delay step
\* occurs, also when document i failed at fetch, parse or upsert.
C4_DelayBetweenFetches ==
    \A n \in 1..(Len(events) - 1) :
        ~(events[n].kind = "fetch" /\ events[n + 1].kind = "fetch")

\* the hosts the bulk downloader is meant to stay on: the host of base_url
AllowedHosts == {base_url[1]}

\* C5: every URL returned by extract_pdf_links and every URL passed to download_pdf
\* has an allowed host.
C5_OnlyAllowedHosts ==
    /\ \A n \in 1..Len(pdf_links) : Head(pdf_links[n]) \in AllowedHosts
    /\ \A n \in 1..Len(downloads) : Head(downloads[n]) \in AllowedHosts

\* the non-empty whitespace-trimmed lines of t, in order
NonEmptyLines(t) ==
    LET ls == splitlines(t)
        trimmed == [n \in 1..Len(ls) |-> strip(ls[n])]
        NonEmpty(l) == l # <<>>
    IN SelectSeq(trimmed, NonEmpty)

\* a bare phone number: a digit group, white space, a digit group (0207 1234567)
BarePhone(line) ==
    \E a \in 1..Len(line), c \in 1..Len(line) :
        /\ a + 1 < c
        /\ line[a] \in Digits
        /\ \A w \in (a + 1)..(c - 1) : line[w] \in Whitespace
        /\ line[c] \in Digits

\* a boundary line as the specification words it: either form
BoundaryLine(line) == phone_pattern_search(line) \/ BarePhone(line)

\* C6: each non-empty trimmed line carrying a phone number, parenthesized or bare,
\* closes a blob: the number of blobs is the number of such lines, plus one if
\* non-empty text follows the last of them.
C6_BlobPerBoundaryLine ==
    ppc = "done" =>
        LET ls == NonEmptyLines(text)
            tail == IF ls # <<>> /\ ~BoundaryLine(ls[Len(ls)]) THEN 1 ELSE 0
        IN Len(blobs) = Cardinality({n \in 1..Len(ls) : BoundaryLine(ls[n])}) + tail

IsSuffix(s, t) == Len(s) <= Len(t) /\ SubSeq(t, Len(t) - Len(s) + 1, Len(t)) = s

\* C7: parse_records drops no text: the blobs joined by single spaces are the
\* non-empty trimmed lines joined by single spaces, no blob is empty, and the lines
\* after the last phone line end the final blob.
C7_NoTextDropped ==
    ppc = "done" =>
        LET ls == NonEmptyLines(text)
            ends == {n \in 1..Len(ls) : BoundaryLine(ls[n])}
            last == IF ends = {} THEN 0 ELSE CHOOSE n \in ends : \A m \in ends : m <= n
        IN /\ join(blobs) = join(ls)
           /\ \A n \in 1..Len(blobs) : blobs[n] # <<>>
           /\ last < Len(ls) =>
                 /\ blobs # <<>>
                 /\ IsSuffix(join(SubSeq(ls, last + 1, Len(ls))), blobs[Len(blobs)])

\* a text whose phone line is followed by trailing text has been segmented
C7_Witness ==
    /\ ppc = "done"
    /\ Len(blobs) = 2
    /\ phone_pattern_search(blobs[1])
    /\ ~BoundaryLine(blobs[2])

\* C8: no document URL is fetched more than once in a run, by build_index or by the
\* scraper's main, whatever duplicates the list or the page contains.
C8_NoUrlFetchedTwice == NoRepeats(FetchLog) /\ NoRepeats(downloads)

\* C9: build_index, and the reindex trigger that calls it, return the run's totals:
\* documents attempted, records parsed, records newly inserted.
C9_RunReportsTotals ==
    response.status = 200 =>
        /\ ret.type = "dict"
        /\ ret.documentsAttempted = tally.attempted
        /\ ret.recordsParsed = tally.parsed
        /\ ret.recordsInserted = tally.grown
        /\ response.body = [documentsAttempted |-> tally.attempted,
                            recordsParsed |-> tally.parsed,
                            recordsInserted |-> tally.grown]

AllWhitespace(s) == \A n \in 1..Len(s) : s[n] \in Whitespace

\* C10: a search whose query is empty or all white space issues no database query
\* and answers zero rows with no error status.
C10_EmptyQueryNoStoreQuery ==
    [][(served' = served + 1 /\ AllWhitespace(arg')) =>
          /\ dbQueries' = dbQueries
          /\ searchResp'.rows = <<>>
          /\ searchResp'.status = 200
          /\ searchResp'.error = "none"]_vars

\* a query of white space only has been answered over a store that holds rows
C10_Witness ==
    /\ served > 0
    /\ arg # <<>>
    /\ AllWhitespace(arg)
    /\ records # <<>>
    /\ searchResp.status = 200

====
